---- MODULE Spec2Model ----
(***************************************************************************)
(* create-ferod-app: the scaffolding CLI of fero-dc.                       *)
(*                                                                         *)
(* A run of createFerodApp: getAnswers, getUserPackageManager, then the    *)
(* steps of scaffoldProject, with the two child processes started by       *)
(* exec() running beside it.                                               *)
(*                                                                         *)
(* JavaScript objects are functions whose DOMAIN is the set of keys that   *)
(* are present; an absent key reads as undefined.  A local that may be     *)
(* undefined is an option value: <<>> is undefined, <<v>> is v.            *)
(***************************************************************************)
EXTENDS Integers, Sequences, FiniteSets, TLC

VARIABLES
    options,          \* CreateAppOptions: name?, flags {yes?, noGit?, noInstall?}
    env,              \* process.env: npm_config_user_agent?
    templateManifest, \* templates/<t>/package.json, for each template t
    pc,               \* position of the run
    answers,          \* what getAnswers returned
    scaffoldOptions,  \* the argument of scaffoldProject
    templates,        \* scaffoldProject's Set, in insertion order
    fs,               \* the target directory: exists, files, dirs
    fs0,              \* the target directory before the run
    calls,            \* the side-effecting calls made so far, in order
    gitInit,          \* the child process of exec("... git init")
    install,          \* the child process of exec("... <pm> install ...")
    result,           \* "pending", "returned" or "threw"
    merged            \* the value createPackageJson returned

vars == <<options, env, templateManifest, pc, answers, scaffoldOptions,
          templates, fs, fs0, calls, gitInit, install, result, merged>>

----------------------------------------------------------------------------
(* Values *)

Empty == <<>>

Has(o, k) == k \in DOMAIN o

\* o.k as an option value
Opt(o, k) == IF Has(o, k) THEN <<o[k]>> ELSE <<>>

\* a ?? b on option values
Coalesce(a, b) == IF a # <<>> THEN a ELSE b

\* if (o.k) for a boolean-valued key
Truthy(o, k) == Has(o, k) /\ o[k]

\* { ...a, ...b }
Spread(a, b) == b @@ a

\* a without key k
Without(o, k) == [x \in DOMAIN o \ {k} |-> o[x]]

----------------------------------------------------------------------------
(* Strings that the code transforms are sequences of characters. *)

UpperToLower ==
    [c \in {"M", "S", "Q", "L", "D", "B", "P", "C"} |->
        CASE c = "M" -> "m" [] c = "S" -> "s" [] c = "Q" -> "q" [] c = "L" -> "l"
          [] c = "D" -> "d" [] c = "B" -> "b" [] c = "P" -> "p" [] c = "C" -> "c"]

\* the type's name used as it is
ToLowerCaseNot(s) == s

ToLowerCase(s) ==
    [i \in DOMAIN s |-> IF s[i] \in DOMAIN UpperToLower THEN UpperToLower[s[i]] ELSE s[i]]

MySQL       == <<"M", "y", "S", "Q", "L">>
MongoDB     == <<"M", "o", "n", "g", "o", "D", "B">>
SQLite      == <<"S", "Q", "L", "i", "t", "e">>
PostgreSQL  == <<"P", "o", "s", "t", "g", "r", "e", "S", "Q", "L">>
SQLServer   == <<"S", "Q", "L", "S", "e", "r", "v", "e", "r">>
CockroachDB == <<"C", "o", "c", "k", "r", "o", "a", "c", "h", "D", "B">>

databases == <<MySQL, MongoDB, SQLite, PostgreSQL, SQLServer, CockroachDB>>

DatabaseType == {databases[i] : i \in DOMAIN databases}

DotPrisma == <<".", "p", "r", "i", "s", "m", "a">>

DefaultName == "my-app"

\* `mongodb://localhost:27017/${n}`
MongoUri(n) == <<"mongodb://localhost:27017/", n>>

----------------------------------------------------------------------------
(* Inputs: the command line, the environment, the user at the prompt. *)

\* the project name given on the command line, when one is given
CliNames == {"demo"}

\* what the user can enter at the name prompt (Enter alone gives the default)
PromptNames == {DefaultName, "bot"}

\* a flag that is given is true; a flag that is not given is absent
FlagSets == SUBSET {"yes", "noGit", "noInstall"}

Flags(given) == [f \in given |-> TRUE]

CreateAppOptions ==
    {[flags |-> Flags(g)] : g \in FlagSets}
      \cup {[name |-> n, flags |-> Flags(g)] : n \in CliNames, g \in FlagSets}

\* npm_config_user_agent as the sequence of its product tokens
UserAgents == {<<"yarn", "npm", "node">>, <<"pnpm", "npm", "node">>}

ProcessEnv == {Empty} \cup {[npm_config_user_agent |-> ua] : ua \in UserAgents}

\* userAgent.includes(word)
Includes(userAgent, word) == \E i \in DOMAIN userAgent : userAgent[i] = word

----------------------------------------------------------------------------
(* getAnswers *)

\* the URI built from the default name, whatever name was given
AnswersYesUriOfDefault(o) ==
    [name              |-> Coalesce(Opt(o, "name"), <<DefaultName>>)[1],
     gitRepo           |-> ~Has(o.flags, "noGit"),
     install           |-> ~Has(o.flags, "noInstall"),
     prisma            |-> TRUE,
     databaseType      |-> MongoDB,
     databaseUri       |-> MongoUri(DefaultName),
     typescript        |-> TRUE,
     helpCommand       |-> TRUE,
     dashboard         |-> TRUE,
     eslintAndPrettier |-> TRUE]

\* the record returned when --yes is given
AnswersYes(o) ==
    [name              |-> Coalesce(Opt(o, "name"), <<DefaultName>>)[1],
     gitRepo           |-> ~Has(o.flags, "noGit"),
     install           |-> ~Has(o.flags, "noInstall"),
     prisma            |-> TRUE,
     databaseType      |-> MongoDB,
     databaseUri       |-> MongoUri(Coalesce(Opt(o, "name"), <<DefaultName>>)[1]),
     typescript        |-> TRUE,
     helpCommand       |-> TRUE,
     dashboard         |-> TRUE,
     eslintAndPrettier |-> TRUE]

\* one question of inquirer.prompt: asked only when its `when` holds, and then
\* the answer is stored under its name; a question not asked stores nothing
Ask(when, key, choices) == IF when THEN {key :> v : v \in choices} ELSE {Empty}

\* the records inquirer.prompt can return, one per way of answering (the URI
\* question is answered with Enter: nothing reads databaseUri afterwards)
PromptAnswers(o) ==
    LET notYes == ~Truthy(o.flags, "yes")
        first ==
            {Spread(Spread(Spread(a1, a2), a3), a4) :
                a1 \in Ask(~Has(o, "name"), "name", PromptNames),
                a2 \in Ask(notYes /\ ~Has(o.flags, "noGit"), "gitRepo", BOOLEAN),
                a3 \in Ask(notYes /\ ~Has(o.flags, "noInstall"), "install", BOOLEAN),
                a4 \in Ask(notYes, "prisma", BOOLEAN)}
        database(a) ==
            {Spread(a5, a6) :
                a5 \in Ask(notYes /\ Truthy(a, "prisma"), "databaseType", DatabaseType),
                a6 \in Ask(notYes /\ Truthy(a, "prisma"), "databaseUri",
                           {MongoUri(Coalesce(Opt(o, "name"), <<DefaultName>>)[1])})}
        rest ==
            {Spread(Spread(Spread(a7, a8), a9), a10) :
                a7  \in Ask(notYes, "typescript", BOOLEAN),
                a8  \in Ask(notYes, "helpCommand", BOOLEAN),
                a9  \in Ask(notYes, "dashboard", BOOLEAN),
                a10 \in Ask(notYes, "eslintAndPrettier", BOOLEAN)}
    IN  UNION {{Spread(Spread(a, d), r) : d \in database(a), r \in rest} : a \in first}

getAnswers(o) ==
    IF Truthy(o.flags, "yes") THEN {AnswersYes(o)} ELSE PromptAnswers(o)

----------------------------------------------------------------------------
(* getUserPackageManager *)

getUserPackageManager(e) ==
    IF ~Has(e, "npm_config_user_agent") THEN "npm"
    ELSE IF Includes(e.npm_config_user_agent, "yarn") THEN "yarn"
    ELSE IF Includes(e.npm_config_user_agent, "pnpm") THEN "pnpm"
    ELSE "npm"

----------------------------------------------------------------------------
(* The templates directory. *)

TemplateNames == {"git", "base", "base-ts", "base-js", "prisma", "eslint-prettier"}

\* the templates that carry a package.json
ManifestTemplates == {"base", "base-ts", "base-js", "prisma", "eslint-prettier"}

\* the number of distinct script / package names the manifests draw from
NumKeys == 2

Keys == 1..NumKeys

\* A manifest of template t whose scripts, dependencies and devDependencies
\* define the given keys (an option each: <<>> when the field is absent).
\* The value template t gives a key is written t, so that the template a
\* merged value came from can be read off it.
Section(field, t, keys) == IF keys = <<>> THEN Empty ELSE field :> [k \in keys[1] |-> t]

Manifest(t, shape) ==
    [name |-> t, version |-> t, private |-> TRUE]
      @@ Section("scripts", t, shape[1])
      @@ Section("dependencies", t, shape[2])
      @@ Section("devDependencies", t, shape[3])

\* the shapes a template's manifest is drawn from
Shapes ==
    {<< <<>>,      <<>>,          <<>>      >>,
     << <<{1}>>,   <<Keys>>,      <<>>      >>,
     << <<Keys>>,  <<{NumKeys}>>, <<{1}>>   >>,
     << <<{NumKeys}>>, <<{}>>,    <<Keys>>  >>}

ManifestChoices == {[t \in ManifestTemplates |-> Manifest(t, sh[t])] : sh \in [ManifestTemplates -> Shapes]}

\* the manifests a whole run is checked with
RunManifests ==
    [t \in ManifestTemplates |->
        Manifest(t, CASE t = "base"            -> << <<Keys>>, <<Keys>>, <<{1}>> >>
                      [] t = "base-ts"         -> << <<{1}>>, <<>>, <<Keys>> >>
                      [] t = "base-js"         -> << <<{NumKeys}>>, <<{1}>>, <<>> >>
                      [] t = "prisma"          -> << <<{NumKeys}>>, <<{1}>>, <<{}>> >>
                      [] t = "eslint-prettier" -> << <<{1}>>, <<>>, <<{NumKeys}>> >>)]

\* the files of a template directory that copySync copies, as paths relative
\* to it; README.md is in every one of them, so that every two copies collide
TemplateFiles(t) ==
    CASE t = "git"             -> {".gitignore", "README.md"}
      [] t = "base"            -> {"package.json", "README.md", ".gitignore", ".env"}
      [] t = "base-ts"         -> {"package.json", "README.md", "tsconfig.json", "index"}
      [] t = "base-js"         -> {"package.json", "README.md", "index"}
      [] t = "eslint-prettier" -> {"package.json", "README.md", ".eslintrc", "tsconfig.json"}
      [] OTHER                 -> {}

\* the content of a file: a JSON document, or the file at `path` of `from`
JsonFile(doc) == [json |-> doc]

PlainFile(from, path) == [from |-> from, path |-> path]

TemplateFile(t, path) ==
    IF path = "package.json" THEN JsonFile(templateManifest[t]) ELSE PlainFile(t, <<path>>)

----------------------------------------------------------------------------
(* The target directory and fs-extra. *)

Directory(exists, files, dirs) == [exists |-> exists, files |-> files, dirs |-> dirs]

\* the states the target directory can be in before the run
InitialDirectories ==
    {Directory(FALSE, Empty, {}),
     Directory(TRUE, Empty, {}),
     Directory(TRUE, "package.json" :> JsonFile([name |-> "old"]), {}),
     Directory(TRUE, Empty, {"src"})}

\* readdirSync that lists the files only
readdirSyncFilesOnly(d) == DOMAIN d.files

\* fse.readdirSync(dir)
readdirSync(d) == DOMAIN d.files \cup d.dirs

\* fse.mkdirSync(dir)
mkdirSync(d) == [d EXCEPT !.exists = TRUE]

\* fse.mkdirSync(resolve(dir, sub))
mkdirSubSync(d, sub) == [d EXCEPT !.dirs = @ \cup {sub}]

\* one file written into the directory, replacing the file at that path
WriteFile(d, path, content) == [d EXCEPT !.files = (path :> content) @@ @]

\* copySync with overwrite switched off: a file that is there is kept
copySyncKeepExisting(d, t) ==
    [d EXCEPT !.files = @ @@ [p \in TemplateFiles(t) |-> TemplateFile(t, p)]]

\* fse.copySync(resolve(templatesDirectory, t), dir): every file of the
\* template, over whatever is at its path (overwrite is fs-extra's default)
copySync(d, t) ==
    [d EXCEPT !.files = [p \in TemplateFiles(t) |-> TemplateFile(t, p)] @@ @]

\* JSON.stringify leaves out a key whose value is undefined
Serialize(obj) ==
    IF Has(obj, "name")
    THEN IF obj.name = <<>> THEN Without(obj, "name") ELSE [obj EXCEPT !.name = @[1]]
    ELSE obj

\* fse.writeJSONSync(resolve(dir, "package.json"), obj)
writeJSONSync(d, obj) == WriteFile(d, "package.json", JsonFile(Serialize(obj)))

----------------------------------------------------------------------------
(* createPackageJson *)

\* packageJson.<field> ?? {}
Entries(packageJson, field) == IF Has(packageJson, field) THEN packageJson[field] ELSE Empty

\* the Map keeps the first value set for a key
RECURSIVE MergeFieldFirstWins(_, _, _)
MergeFieldFirstWins(manifests, directories, field) ==
    IF directories = <<>> THEN Empty
    ELSE LET n == Len(directories)
         IN  Spread(Entries(manifests[directories[n]], field),
                    MergeFieldFirstWins(manifests, SubSeq(directories, 1, n - 1), field))

\* the Map after the loop over `directories`: each entry set over the Map so far
RECURSIVE MergeField(_, _, _)
MergeField(manifests, directories, field) ==
    IF directories = <<>> THEN Empty
    ELSE LET n == Len(directories)
         IN  Spread(MergeField(manifests, SubSeq(directories, 1, n - 1), field),
                    Entries(manifests[directories[n]], field))

\* projectName is an option value: scaffoldProject passes options.name
createPackageJson(manifests, projectName, directories) ==
    Spread(manifests[directories[1]],
           [name            |-> projectName,
            scripts         |-> MergeField(manifests, directories, "scripts"),
            dependencies    |-> MergeField(manifests, directories, "dependencies"),
            devDependencies |-> MergeField(manifests, directories, "devDependencies")])

----------------------------------------------------------------------------
(* createFerodApp *)

\* a call with an effect outside the program, as recorded in `calls`
Call(op, arg) == [op |-> op, arg |-> arg]

\* resolve(process.cwd(), name)
ProjectDirectory(name) == <<"cwd">> \o name

\* the argument createFerodApp passes to scaffoldProject
ScaffoldOptions(a, o, e) ==
    Spread(a, [packageManager   |-> getUserPackageManager(e),
               projectDirectory |-> ProjectDirectory(Coalesce(Opt(a, "name"), Opt(o, "name")))])

CreateFerodApp ==
    /\ pc = "createFerodApp"
    /\ \E a \in getAnswers(options) :
          /\ answers' = a
          /\ scaffoldOptions' = ScaffoldOptions(a, options, env)
    /\ pc' = "scaffoldProject"
    /\ UNCHANGED <<options, env, templateManifest, templates, fs, fs0, calls,
                   gitInit, install, result, merged>>

----------------------------------------------------------------------------
(* scaffoldProject *)

\* the language variant taken to be TypeScript whatever was answered
TemplateSetAlwaysTs(o) ==
    LET t0 == <<"base", "base-ts">>
        t1 == IF Truthy(o, "prisma") THEN Append(t0, "prisma") ELSE t0
    IN  IF Truthy(o, "eslintAndPrettier") THEN Append(t1, "eslint-prettier") ELSE t1

\* new Set([...]) and the two add() calls; a Set keeps insertion order and
\* add() of a member changes nothing
SetAdd(set, x) == IF \E i \in DOMAIN set : set[i] = x THEN set ELSE Append(set, x)

TemplateSet(o) ==
    LET t0 == SetAdd(SetAdd(<<>>, "base"), IF Truthy(o, "typescript") THEN "base-ts" ELSE "base-js")
        t1 == IF Truthy(o, "prisma") THEN SetAdd(t0, "prisma") ELSE t0
    IN  IF Truthy(o, "eslintAndPrettier") THEN SetAdd(t1, "eslint-prettier") ELSE t1

BasePath(o) == IF Truthy(o, "typescript") THEN "base-ts" ELSE "base-js"

\* options.databaseType?.toLowerCase() ?? "mongodb", then `${databaseType}.prisma`
SchemaFile(o) ==
    Coalesce(IF Has(o, "databaseType") THEN <<ToLowerCase(o.databaseType)>> ELSE <<>>,
             <<<<"m", "o", "n", "g", "o", "d", "b">>>>)[1] \o DotPrisma

Return == pc' = "done" /\ result' = "returned"

Throw == pc' = "done" /\ result' = "threw"

\* the directory exists and is not empty: the message, and return
DirectoryNotEmpty ==
    /\ pc = "scaffoldProject"
    /\ fs.exists /\ readdirSync(fs) # {}
    /\ templates' = TemplateSet(scaffoldOptions)
    /\ Return
    /\ UNCHANGED <<options, env, templateManifest, answers, scaffoldOptions, fs, fs0,
                   calls, gitInit, install, merged>>

\* the directory is empty, or is made
MakeProjectDirectory ==
    /\ pc = "scaffoldProject"
    /\ ~(fs.exists /\ readdirSync(fs) # {})
    /\ templates' = TemplateSet(scaffoldOptions)
    /\ IF fs.exists
       THEN UNCHANGED <<fs, calls>>
       ELSE /\ fs' = mkdirSync(fs)
            /\ calls' = Append(calls, Call("mkdirSync", <<".">>))
    /\ pc' = "git"
    /\ UNCHANGED <<options, env, templateManifest, answers, scaffoldOptions, fs0,
                   gitInit, install, result, merged>>

\* exec(git init) and the copy of the git template; a copy throws when its
\* template is missing
InitializeGit ==
    /\ pc = "git"
    /\ IF Truthy(scaffoldOptions, "gitRepo")
       THEN /\ gitInit' = "running"
            /\ \/ /\ fs' = copySync(fs, "git")
                  /\ calls' = calls \o <<Call("exec", <<"git init">>), Call("copySync", <<"git">>)>>
                  /\ pc' = "base"
                  /\ UNCHANGED result
               \/ /\ calls' = Append(calls, Call("exec", <<"git init">>))
                  /\ Throw
                  /\ UNCHANGED fs
       ELSE /\ pc' = "base"
            /\ UNCHANGED <<fs, calls, gitInit, result>>
    /\ UNCHANGED <<options, env, templateManifest, answers, scaffoldOptions, templates,
                   fs0, install, merged>>

\* one fse.copySync of a template at position `at`, going on to `next`
CopyTemplate(at, t, next) ==
    /\ pc = at
    /\ \/ /\ fs' = copySync(fs, t)
          /\ calls' = Append(calls, Call("copySync", <<t>>))
          /\ pc' = next
          /\ UNCHANGED result
       \/ /\ Throw
          /\ UNCHANGED <<fs, calls>>
    /\ UNCHANGED <<options, env, templateManifest, answers, scaffoldOptions, templates,
                   fs0, gitInit, install, merged>>

CopyBase == CopyTemplate("base", "base", "basePath")

CopyBasePath == CopyTemplate("basePath", BasePath(scaffoldOptions), "prisma")

\* the prisma directory and its one schema file
CopyPrisma ==
    /\ pc = "prisma"
    /\ IF Truthy(scaffoldOptions, "prisma")
       THEN \/ /\ fs' = WriteFile(mkdirSubSync(fs, "prisma"), "prisma/schema.prisma",
                                  PlainFile("prisma", SchemaFile(scaffoldOptions)))
               /\ calls' = calls \o <<Call("mkdirSync", <<"prisma">>),
                                      Call("copyFileSync", SchemaFile(scaffoldOptions))>>
               /\ pc' = "eslint"
               /\ UNCHANGED result
            \/ /\ fs' = mkdirSubSync(fs, "prisma")
               /\ calls' = Append(calls, Call("mkdirSync", <<"prisma">>))
               /\ Throw
       ELSE /\ pc' = "eslint"
            /\ UNCHANGED <<fs, calls, result>>
    /\ UNCHANGED <<options, env, templateManifest, answers, scaffoldOptions, templates,
                   fs0, gitInit, install, merged>>

CopyEslintPrettier ==
    IF Truthy(scaffoldOptions, "eslintAndPrettier")
    THEN CopyTemplate("eslint", "eslint-prettier", "packageJson")
    ELSE /\ pc = "eslint"
         /\ pc' = "packageJson"
         /\ UNCHANGED <<options, env, templateManifest, answers, scaffoldOptions, templates,
                        fs, fs0, calls, gitInit, install, result, merged>>

\* the install started before package.json is written
WritePackageJsonInstallFirst ==
    /\ pc = "packageJson"
    /\ install' = (IF Truthy(scaffoldOptions, "install") THEN "running" ELSE install)
    /\ \/ /\ merged' = createPackageJson(templateManifest, Opt(scaffoldOptions, "name"), templates)
          /\ fs' = writeJSONSync(fs, merged')
          /\ calls' = Append(calls, Call("writeJSONSync", <<"package.json">>))
          /\ pc' = "install"
          /\ UNCHANGED result
       \/ /\ Throw
          /\ UNCHANGED <<fs, calls, merged>>
    /\ UNCHANGED <<options, env, templateManifest, answers, scaffoldOptions, templates,
                   fs0, gitInit>>

\* createPackageJson (a readJSONSync throws when a manifest is missing), then
\* writeJSONSync
WritePackageJson ==
    /\ pc = "packageJson"
    /\ \/ /\ merged' = createPackageJson(templateManifest, Opt(scaffoldOptions, "name"), templates)
          /\ fs' = writeJSONSync(fs, merged')
          /\ calls' = Append(calls, Call("writeJSONSync", <<"package.json">>))
          /\ pc' = "install"
          /\ UNCHANGED result
       \/ /\ Throw
          /\ UNCHANGED <<fs, calls, merged>>
    /\ UNCHANGED <<options, env, templateManifest, answers, scaffoldOptions, templates,
                   fs0, gitInit, install>>

\* the install started whatever was answered
InstallDependenciesAlways ==
    /\ pc = "install"
    /\ install' = "running"
    /\ calls' = Append(calls, Call("exec", <<scaffoldOptions.packageManager, "install">>))
    /\ Return
    /\ UNCHANGED <<options, env, templateManifest, answers, scaffoldOptions, templates,
                   fs, fs0, gitInit, merged>>

\* exec(<packageManager> install), and scaffoldProject returns
InstallDependencies ==
    /\ pc = "install"
    /\ IF Truthy(scaffoldOptions, "install")
       THEN /\ install' = "running"
            /\ calls' = Append(calls, Call("exec", <<scaffoldOptions.packageManager, "install">>))
       ELSE UNCHANGED <<install, calls>>
    /\ Return
    /\ UNCHANGED <<options, env, templateManifest, answers, scaffoldOptions, templates,
                   fs, fs0, gitInit, merged>>

----------------------------------------------------------------------------
(* The child processes of exec.  A child runs beside the program from the  *)
(* moment exec starts it; its callback runs on the event loop, so only     *)
(* once the synchronous body of scaffoldProject has ended.                 *)

\* a child is "none" (not started), "running", then "exited0" or "exited1"
\* (its exit code), then "logged0" or "logged1" once its callback has run

\* git init ends: with success it has made .git in the directory
GitInitExits ==
    /\ gitInit = "running"
    /\ \/ gitInit' = "exited0" /\ fs' = mkdirSubSync(fs, ".git")
       \/ gitInit' = "exited1" /\ UNCHANGED fs
    /\ UNCHANGED <<options, env, templateManifest, pc, answers, scaffoldOptions, templates,
                   fs0, calls, install, result, merged>>

\* the install ends: with success it has made node_modules in the directory
InstallExits ==
    /\ install = "running"
    /\ \/ install' = "exited0" /\ fs' = mkdirSubSync(fs, "node_modules")
       \/ install' = "exited1" /\ UNCHANGED fs
    /\ UNCHANGED <<options, env, templateManifest, pc, answers, scaffoldOptions, templates,
                   fs0, calls, gitInit, result, merged>>

\* a callback that throws the child's error
ExecCallbackThrows(error, outcome) == IF error THEN "threw" ELSE outcome

\* (_, stdout) => console.log(stdout): the error is not looked at, and the
\* outcome of the run stays what it was
ExecCallback(error, outcome) == outcome

Logged(child) == IF child = "exited0" THEN "logged0" ELSE "logged1"

GitInitCallback ==
    /\ pc = "done"
    /\ gitInit \in {"exited0", "exited1"}
    /\ gitInit' = Logged(gitInit)
    /\ result' = ExecCallback(gitInit = "exited1", result)
    /\ UNCHANGED <<options, env, templateManifest, pc, answers, scaffoldOptions, templates,
                   fs, fs0, calls, install, merged>>

InstallCallback ==
    /\ pc = "done"
    /\ install \in {"exited0", "exited1"}
    /\ install' = Logged(install)
    /\ result' = ExecCallback(install = "exited1", result)
    /\ UNCHANGED <<options, env, templateManifest, pc, answers, scaffoldOptions, templates,
                   fs, fs0, calls, gitInit, merged>>

----------------------------------------------------------------------------
(* The run of the CLI. *)

Init ==
    /\ options \in CreateAppOptions
    /\ env \in ProcessEnv
    /\ templateManifest = RunManifests
    /\ pc = "createFerodApp"
    /\ answers = Empty
    /\ scaffoldOptions = Empty
    /\ templates = <<>>
    /\ fs \in InitialDirectories
    /\ fs0 = fs
    /\ calls = <<>>
    /\ gitInit = "none"
    /\ install = "none"
    /\ result = "pending"
    /\ merged = Empty

ScaffoldProject ==
    \/ DirectoryNotEmpty
    \/ MakeProjectDirectory
    \/ InitializeGit
    \/ CopyBase
    \/ CopyBasePath
    \/ CopyPrisma
    \/ CopyEslintPrettier
    \/ WritePackageJson
    \/ InstallDependencies
    \/ GitInitExits
    \/ InstallExits
    \/ GitInitCallback
    \/ InstallCallback

Next == CreateFerodApp \/ ScaffoldProject

Spec == Init /\ [][Next]_vars

----------------------------------------------------------------------------
(* scaffoldProject alone, called with any value of its parameter type. *)

\* the values of ScaffoldOptions: databaseType is optional in Answers
ScaffoldOptionsValues ==
    {Spread(d, [name |-> "demo", gitRepo |-> g, install |-> i, prisma |-> p,
                typescript |-> ts, helpCommand |-> TRUE, dashboard |-> TRUE,
                eslintAndPrettier |-> e, packageManager |-> "npm",
                projectDirectory |-> ProjectDirectory(<<"demo">>)]) :
        d \in {Empty} \cup {[databaseType |-> t] : t \in DatabaseType},
        g \in BOOLEAN, i \in BOOLEAN, p \in BOOLEAN, ts \in BOOLEAN, e \in BOOLEAN}

InitScaffold ==
    /\ options = [name |-> "demo", flags |-> Empty]
    /\ env = Empty
    /\ templateManifest = RunManifests
    /\ pc = "scaffoldProject"
    /\ answers = Empty
    /\ scaffoldOptions \in ScaffoldOptionsValues
    /\ templates = <<>>
    /\ fs \in InitialDirectories
    /\ fs0 = fs
    /\ calls = <<>>
    /\ gitInit = "none"
    /\ install = "none"
    /\ result = "pending"
    /\ merged = Empty

SpecScaffold == InitScaffold /\ [][ScaffoldProject]_vars

----------------------------------------------------------------------------
(* createPackageJson alone, over manifests drawn from ManifestChoices. *)

MergeOptionsValues ==
    {Spread(n, [prisma |-> p, typescript |-> ts, eslintAndPrettier |-> e]) :
        n \in {Empty, [name |-> "demo"]},
        p \in BOOLEAN, ts \in BOOLEAN, e \in BOOLEAN}

InitMerge ==
    /\ options = [flags |-> Empty]
    /\ env = Empty
    /\ templateManifest \in ManifestChoices
    /\ pc = "createPackageJson"
    /\ answers = Empty
    /\ scaffoldOptions \in MergeOptionsValues
    /\ templates = <<>>
    /\ fs = Directory(TRUE, Empty, {})
    /\ fs0 = fs
    /\ calls = <<>>
    /\ gitInit = "none"
    /\ install = "none"
    /\ result = "pending"
    /\ merged = Empty

\* createPackageJson(options.name, ...templates), as scaffoldProject calls it
MergeManifests ==
    /\ pc = "createPackageJson"
    /\ templates' = TemplateSet(scaffoldOptions)
    /\ merged' = createPackageJson(templateManifest, Opt(scaffoldOptions, "name"), templates')
    /\ pc' = "merged"
    /\ UNCHANGED <<options, env, templateManifest, answers, scaffoldOptions, fs, fs0,
                   calls, gitInit, install, result>>

SpecMerge == InitMerge /\ [][MergeManifests]_vars

----------------------------------------------------------------------------
(* What the claims speak of. *)

\* the name the run was asked for: the one the target directory is resolved from
RequestedName == Coalesce(Opt(answers, "name"), Opt(options, "name"))

\* getAnswers has returned
Answered == pc # "createFerodApp"

\* the Set of templates has been computed
TemplatesComputed == pc \notin {"createFerodApp", "scaffoldProject", "createPackageJson"}

\* the target directory existed with something in it before the run
Occupied == fs0.exists /\ (DOMAIN fs0.files # {} \/ fs0.dirs # {})

Made(op) == \E i \in DOMAIN calls : calls[i].op = op

ManifestWritten == Made("writeJSONSync")

Completed == pc = "done" /\ result = "returned" /\ ~Occupied

\* the members of a sequence
Range(seq) == {seq[i] : i \in DOMAIN seq}

\* the sequence `all` without the members that are not in `keep`
RECURSIVE Filter(_, _)
Filter(all, keep) ==
    IF all = <<>> THEN <<>>
    ELSE IF Head(all) \in keep THEN <<Head(all)>> \o Filter(Tail(all), keep)
    ELSE Filter(Tail(all), keep)

IsPrefix(a, b) == Len(a) <= Len(b) /\ SubSeq(b, 1, Len(a)) = a

\* the last member of `order` that satisfies having `x` in `holds[member]`
LastWith(order, holds, x) ==
    order[CHOOSE i \in DOMAIN order :
            /\ x \in holds[order[i]]
            /\ \A j \in DOMAIN order : j > i => x \notin holds[order[j]]]

----------------------------------------------------------------------------
\* C1: whenever the run has written package.json, its name field is the
\* requested project name (the name the target directory was resolved from).
C1_ManifestNameIsRequestedName ==
    ManifestWritten =>
        LET doc == fs.files["package.json"].json
        IN  Has(doc, "name") /\ <<doc.name>> = RequestedName

----------------------------------------------------------------------------
\* C2: scaffoldProject on an existing, non-empty directory returns normally
\* and writes nothing: no call with an effect is made, no child process is
\* started, and the directory is what it was before, in every state of the run.
C2_OccupiedDirectoryUntouched ==
    (Occupied /\ pc # "createFerodApp") =>
        /\ fs = fs0
        /\ calls = <<>>
        /\ gitInit = "none" /\ install = "none"
        /\ result # "threw"
        /\ pc \in {"scaffoldProject", "done"}
        /\ pc = "done" => result = "returned"

C2_Witness == Occupied /\ pc = "done" /\ result = "returned" /\ fs0.dirs = {"src"}

----------------------------------------------------------------------------
\* C3: the Template Set holds "base", exactly one of "base-ts" / "base-js"
\* ("base-ts" iff typescript), "prisma" iff prisma, "eslint-prettier" iff
\* eslintAndPrettier, nothing else, and nothing twice.
C3_TemplateSet ==
    TemplatesComputed =>
        LET set == Range(templates)
        IN  /\ "base" \in set
            /\ ("base-ts" \in set) <=> Truthy(scaffoldOptions, "typescript")
            /\ ("base-js" \in set) <=> ~Truthy(scaffoldOptions, "typescript")
            /\ ("prisma" \in set) <=> Truthy(scaffoldOptions, "prisma")
            /\ ("eslint-prettier" \in set) <=> Truthy(scaffoldOptions, "eslintAndPrettier")
            /\ set \subseteq {"base", "base-ts", "base-js", "prisma", "eslint-prettier"}
            /\ Cardinality(set) = Len(templates)

C3_Witness ==
    /\ TemplatesComputed
    /\ ~Truthy(scaffoldOptions, "typescript")
    /\ ~Truthy(scaffoldOptions, "prisma")
    /\ Truthy(scaffoldOptions, "eslintAndPrettier")
    /\ ~Truthy(scaffoldOptions, "gitRepo")
    /\ ~Truthy(scaffoldOptions, "dashboard")
    /\ templates = <<"base", "base-js", "eslint-prettier">>

----------------------------------------------------------------------------
\* C4: createPackageJson merges key-last-wins in the order base, language
\* variant, prisma, eslint-prettier: for scripts, dependencies and
\* devDependencies the merged keys are the union of the templates' keys and
\* each key has the value of the last template in that order that defines
\* it; every other field but name is the base manifest's, unchanged.
MergeOrder ==
    Filter(<<"base", "base-ts", "base-js", "prisma", "eslint-prettier">>,
           {"base"}
             \cup (IF scaffoldOptions.typescript THEN {"base-ts"} ELSE {"base-js"})
             \cup (IF scaffoldOptions.prisma THEN {"prisma"} ELSE {})
             \cup (IF scaffoldOptions.eslintAndPrettier THEN {"eslint-prettier"} ELSE {}))

DefinedKeys(field) ==
    [t \in ManifestTemplates |->
        IF Has(templateManifest[t], field) THEN DOMAIN templateManifest[t][field] ELSE {}]

MergedFields == {"scripts", "dependencies", "devDependencies"}

C4_MergeKeyLastWins ==
    pc = "merged" =>
        /\ \A field \in MergedFields :
              /\ DOMAIN merged[field] = UNION {DefinedKeys(field)[t] : t \in Range(MergeOrder)}
              /\ \A k \in DOMAIN merged[field] :
                    merged[field][k] =
                        templateManifest[LastWith(MergeOrder, DefinedKeys(field), k)][field][k]
        /\ DOMAIN merged = DOMAIN templateManifest["base"] \cup MergedFields \cup {"name"}
        /\ \A other \in DOMAIN merged \ (MergedFields \cup {"name"}) :
              merged[other] = templateManifest["base"][other]

\* the spec's example: an earlier template defines key 1, a later one keys 1
\* and NumKeys, and both merged values are the later template's
C4_Witness ==
    /\ pc = "merged"
    /\ MergeOrder = <<"base", "base-js", "prisma", "eslint-prettier">>
    /\ DefinedKeys("scripts")["base"] = {1}
    /\ DefinedKeys("scripts")["base-js"] = Keys
    /\ DefinedKeys("scripts")["prisma"] = {}
    /\ DefinedKeys("scripts")["eslint-prettier"] = {}
    /\ merged.scripts = [k \in Keys |-> "base-js"]

----------------------------------------------------------------------------
\* C5: in a scaffold that passes the directory check the copies are made in
\* the order git (if gitRepo), base, language variant, prisma schema (if
\* prisma), eslint-prettier (if eslintAndPrettier), and package.json is
\* written after them all; a path that several templates hold ends with the
\* file of the template copied last, and package.json ends as the merged
\* manifest, which is no template's own manifest.
Selected(o) ==
    {"base", "writeJSONSync"}
      \cup (IF Truthy(o, "gitRepo") THEN {"git"} ELSE {})
      \cup (IF Truthy(o, "typescript") THEN {"base-ts"} ELSE {"base-js"})
      \cup (IF Truthy(o, "prisma") THEN {"copyFileSync"} ELSE {})
      \cup (IF Truthy(o, "eslintAndPrettier") THEN {"eslint-prettier"} ELSE {})

ExpectedCopies ==
    Filter(<<"git", "base", "base-ts", "base-js", "copyFileSync", "eslint-prettier",
             "writeJSONSync">>, Selected(scaffoldOptions))

RECURSIVE CopyLabels(_)
CopyLabels(cs) ==
    IF cs = <<>> THEN <<>>
    ELSE LET c == Head(cs)
         IN  (CASE c.op = "copySync" -> <<c.arg[1]>>
                [] c.op \in {"copyFileSync", "writeJSONSync"} -> <<c.op>>
                [] OTHER -> <<>>) \o CopyLabels(Tail(cs))

CopiedTemplates == Filter(ExpectedCopies, TemplateNames)

FilesOf == [t \in TemplateNames |-> TemplateFiles(t)]

C5_CopyOrderLastCopyWins ==
    /\ (TemplatesComputed /\ ~Occupied) => IsPrefix(CopyLabels(calls), ExpectedCopies)
    /\ Completed =>
          /\ CopyLabels(calls) = ExpectedCopies
          /\ DOMAIN fs.files \ {"prisma/schema.prisma"} =
                UNION {TemplateFiles(t) : t \in Range(CopiedTemplates)}
          /\ \A path \in DOMAIN fs.files \ {"package.json", "prisma/schema.prisma"} :
                fs.files[path] = PlainFile(LastWith(CopiedTemplates, FilesOf, path), <<path>>)
          /\ fs.files["package.json"] = JsonFile(Serialize(merged))
          /\ \A t \in ManifestTemplates :
                fs.files["package.json"] # JsonFile(templateManifest[t])

C5_Witness ==
    /\ Completed
    /\ CopyLabels(calls) =
          <<"git", "base", "base-ts", "copyFileSync", "eslint-prettier", "writeJSONSync">>
    /\ fs.files["README.md"] = PlainFile("eslint-prettier", <<"README.md">>)
    /\ fs.files[".gitignore"] = PlainFile("base", <<".gitignore">>)
    /\ fs.files["package.json"].json.scripts = [k \in Keys |-> IF k = 1 THEN "eslint-prettier" ELSE "prisma"]

----------------------------------------------------------------------------
\* C6 as stated: with --yes every field of the record is defined, name is the
\* command-line name or "my-app", databaseType is MongoDB, databaseUri is
\* built from that name, and every one of the seven booleans is true,
\* whichever of --no-git and --no-install are given.
YesAnswersCommon ==
    /\ DOMAIN answers = {"name", "gitRepo", "install", "prisma", "databaseType",
                         "databaseUri", "typescript", "helpCommand", "dashboard",
                         "eslintAndPrettier"}
    /\ answers.name = (IF Has(options, "name") THEN options.name ELSE "my-app")
    /\ answers.databaseType = <<"M", "o", "n", "g", "o", "D", "B">>
    /\ answers.databaseUri = <<"mongodb://localhost:27017/", answers.name>>
    /\ answers.prisma /\ answers.typescript /\ answers.helpCommand
    /\ answers.dashboard /\ answers.eslintAndPrettier

C6_YesAllBooleansTrue ==
    (Answered /\ Truthy(options.flags, "yes")) =>
        /\ YesAnswersCommon
        /\ answers.gitRepo /\ answers.install

\* C6 as amended: the same, except that gitRepo is true exactly when --no-git
\* is not given and install is true exactly when --no-install is not given.
C6_YesDefaultsHonourSkipFlags ==
    (Answered /\ Truthy(options.flags, "yes")) =>
        /\ YesAnswersCommon
        /\ answers.gitRepo <=> ~Has(options.flags, "noGit")
        /\ answers.install <=> ~Has(options.flags, "noInstall")

C6_Witness ==
    /\ Answered
    /\ Truthy(options.flags, "yes")
    /\ Has(options.flags, "noGit") /\ ~Has(options.flags, "noInstall")
    /\ ~Has(options, "name")
    /\ answers.name = "my-app" /\ ~answers.gitRepo /\ answers.install

----------------------------------------------------------------------------
\* C7: with prisma, scaffoldProject makes the prisma directory and copies
\* exactly one schema file to prisma/schema.prisma: <lower-cased
\* databaseType>.prisma, and mongodb.prisma when databaseType is absent;
\* without prisma it makes neither the directory nor the file.
SchemaNameOf(type) ==
    CASE type = <<"M", "y", "S", "Q", "L">> -> <<"m", "y", "s", "q", "l">>
      [] type = <<"M", "o", "n", "g", "o", "D", "B">> -> <<"m", "o", "n", "g", "o", "d", "b">>
      [] type = <<"S", "Q", "L", "i", "t", "e">> -> <<"s", "q", "l", "i", "t", "e">>
      [] type = <<"P", "o", "s", "t", "g", "r", "e", "S", "Q", "L">> ->
            <<"p", "o", "s", "t", "g", "r", "e", "s", "q", "l">>
      [] type = <<"S", "Q", "L", "S", "e", "r", "v", "e", "r">> ->
            <<"s", "q", "l", "s", "e", "r", "v", "e", "r">>
      [] type = <<"C", "o", "c", "k", "r", "o", "a", "c", "h", "D", "B">> ->
            <<"c", "o", "c", "k", "r", "o", "a", "c", "h", "d", "b">>

ExpectedSchema ==
    (IF Has(scaffoldOptions, "databaseType")
     THEN SchemaNameOf(scaffoldOptions.databaseType)
     ELSE <<"m", "o", "n", "g", "o", "d", "b">>) \o <<".", "p", "r", "i", "s", "m", "a">>

SchemaCopies == {i \in DOMAIN calls : calls[i].op = "copyFileSync"}

C7_PrismaSchemaByDatabaseType ==
    /\ ~Truthy(scaffoldOptions, "prisma") =>
          /\ "prisma" \notin fs.dirs
          /\ "prisma/schema.prisma" \notin DOMAIN fs.files
          /\ SchemaCopies = {}
    /\ (Truthy(scaffoldOptions, "prisma") /\ pc \in {"eslint", "packageJson", "install"}) =>
          SchemaCopies # {}
    /\ SchemaCopies # {} =>
          /\ Truthy(scaffoldOptions, "prisma")
          /\ "prisma" \in fs.dirs
          /\ Cardinality(SchemaCopies) = 1
          /\ \A i \in SchemaCopies : calls[i].arg = ExpectedSchema
          /\ fs.files["prisma/schema.prisma"] = PlainFile("prisma", ExpectedSchema)

C7_Witness ==
    /\ Completed
    /\ Truthy(scaffoldOptions, "prisma")
    /\ ~Has(scaffoldOptions, "databaseType")
    /\ fs.files["prisma/schema.prisma"] =
          PlainFile("prisma", <<"m", "o", "n", "g", "o", "d", "b", ".", "p", "r", "i", "s", "m", "a">>)

----------------------------------------------------------------------------
\* C8: the two child processes are not waited for and their failure is never
\* the caller's: once package.json is written the run can only end
\* "returned", and it ends with the files and directories the steps of
\* scaffoldProject alone produce, whether a child is still running, has
\* succeeded or has failed, and whether or not its callback has run.
StepsAlone(o) ==
    LET d0 == Directory(TRUE, Empty, {})
        d1 == IF Truthy(o, "gitRepo") THEN copySync(d0, "git") ELSE d0
        d2 == copySync(copySync(d1, "base"), BasePath(o))
        d3 == IF Truthy(o, "prisma")
              THEN WriteFile(mkdirSubSync(d2, "prisma"), "prisma/schema.prisma",
                             PlainFile("prisma", SchemaFile(o)))
              ELSE d2
        d4 == IF Truthy(o, "eslintAndPrettier") THEN copySync(d3, "eslint-prettier") ELSE d3
    IN  writeJSONSync(d4, createPackageJson(templateManifest, Opt(o, "name"), TemplateSet(o)))

ChildDirs == {".git", "node_modules"}

C8_ChildrenAreFireAndForget ==
    ManifestWritten =>
        /\ result # "threw"
        /\ pc = "done" =>
              /\ result = "returned"
              /\ fs.files = StepsAlone(scaffoldOptions).files
              /\ fs.dirs \ ChildDirs = StepsAlone(scaffoldOptions).dirs

C8_Witness ==
    /\ pc = "done" /\ result = "returned"
    /\ gitInit = "logged1"
    /\ install = "running"
    /\ ".git" \notin fs.dirs

----------------------------------------------------------------------------
\* C9 as stated: no child process is running in the target directory while
\* scaffoldProject still has a copy or a write to make there, nor while the
\* other child process is running there.
StepsLeft == {"base", "basePath", "prisma", "eslint", "packageJson"}

C9_NoConcurrentAccess ==
    /\ ~(gitInit = "running" /\ pc \in StepsLeft)
    /\ ~(install = "running" /\ pc \in StepsLeft)
    /\ ~(gitInit = "running" /\ install = "running")

\* C9 as amended: the install is never running while scaffoldProject still
\* has a copy or a write to make (it is started by the last step); git init
\* can be running during the copies and writes, and beside the install.
C9_InstallOnlyAfterLastStep ==
    install # "none" => pc = "done"

C9_Witness ==
    /\ pc = "done" /\ result = "returned"
    /\ install = "running"
    /\ gitInit = "running"

----------------------------------------------------------------------------
\* C10: the install is started only if install is true and only after the
\* merged package.json is in the directory; git init is started only if
\* gitRepo is true and only once the directory exists and has passed the
\* emptiness check, before any copy; a run that throws before package.json
\* is written never starts the install.
ExecsOf(command) ==
    {i \in DOMAIN calls : calls[i].op = "exec" /\ calls[i].arg[Len(calls[i].arg)] = command}

C10_ExternalCommandOrder ==
    /\ install # "none" =>
          /\ Truthy(scaffoldOptions, "install")
          /\ ExecsOf("install") # {}
    /\ \A i \in ExecsOf("install") :
          /\ Truthy(scaffoldOptions, "install")
          /\ \E j \in 1..(i - 1) : calls[j].op = "writeJSONSync"
          /\ fs.files["package.json"] = JsonFile(Serialize(merged))
    /\ gitInit # "none" =>
          /\ Truthy(scaffoldOptions, "gitRepo")
          /\ ExecsOf("git init") # {}
    /\ \A i \in ExecsOf("git init") :
          /\ Truthy(scaffoldOptions, "gitRepo")
          /\ fs.exists /\ ~Occupied
          /\ fs0.exists \/ \E j \in 1..(i - 1) : calls[j].op = "mkdirSync"
          /\ \A j \in 1..(i - 1) : calls[j].op \notin {"copySync", "copyFileSync", "writeJSONSync"}
    /\ (result = "threw" /\ ~ManifestWritten) => install = "none" /\ ExecsOf("install") = {}

C10_Witness ==
    /\ result = "threw" /\ ~ManifestWritten
    /\ Truthy(scaffoldOptions, "install")
    /\ gitInit = "running"
    /\ ~fs0.exists
    /\ Made("copyFileSync")

====
